---- MODULE Spec2Model ----
(***************************************************************************)
(* Model of emu_renewal/calibration.py: the Calibration constructor (index *)
(* alignment of an observed series with a renewal model's analysis times)  *)
(* and StandardCalib (get_model_notifications, calibration,                *)
(* get_description).                                                       *)
(*                                                                         *)
(* Conventions                                                             *)
(*  - A real number is an exact rational <<num, den>>, den > 0, in lowest  *)
(*    terms.  Floating-point rounding is outside the model.                *)
(*  - Logarithms are taken in base 2 (natural log = Log2 * ln 2); every    *)
(*    positive quantity of the model is a power of two, so they are exact. *)
(*  - A calendar date is an integer number of ticks; the epoch maps the    *)
(*    model's integer time t to the date ref_date + t * unit.              *)
(*  - A pandas Series is a sequence of <<date, value>> rows whose dates    *)
(*    are pairwise distinct (a series indexed by calendar date), in any    *)
(*    order.                                                               *)
(*  - A Python dict is a function from its keys; fixed_params is held by   *)
(*    reference (heap) because calibration() starts from an alias of it.   *)
(***************************************************************************)
EXTENDS Integers, Sequences, FiniteSets, TLC

VARIABLES
    obs,        \* the observed series handed to the constructor (argument `data`)
    self,       \* the StandardCalib object's attributes
    heap,       \* dict objects by reference: heap[self.fixed_params]
    op,         \* "init" (just constructed), "idle", or the call that has just run:
                \* "calibration", "get_model_notifications", "get_description"
    args,       \* what the last operation passed to the renewal model (keyword arguments)
    traj,       \* the trajectory renewal_func returned in the last operation
    trace,      \* the sampler-trace registrations of the last operation
    ret         \* the last operation's outcome: returned value or raised error

vars == <<obs, self, heap, op, args, traj, trace, ret>>

----------------------------------------------------------------------------
\* Bounds of the model

\* the number of model time points, len(model_times)
MaxT == 2
\* the observed series has at most MaxObs rows
MaxObs == 3
\* the declared number of process periods ranges over 1..MaxProc
MaxProc == 3

----------------------------------------------------------------------------
\* Sequences and exact rationals

Range(s) == {s[i] : i \in 1..Len(s)}

RECURSIVE GCD(_, _)
GCD(a, b) == IF b = 0 THEN a ELSE GCD(b, a % b)

\* the rational n/d in lowest terms
Rat(n, d) == LET g == GCD(n, d) IN IF g = 0 THEN <<0, 1>> ELSE <<n \div g, d \div g>>

Mul(a, b) == Rat(a[1] * b[1], a[2] * b[2])

\* a / b for b > 0
Div(a, b) == Rat(a[1] * b[2], a[2] * b[1])

\* elementwise array * scalar and array / scalar (numpy broadcasting)
VecMul(v, c) == [i \in 1..Len(v) |-> Mul(v[i], c)]

VecDiv(v, c) == [i \in 1..Len(v) |-> Div(v[i], c)]

\* log2 of a positive integer that is a power of two
RECURSIVE Log2Int(_)
Log2Int(n) == IF n <= 1 THEN 0 ELSE 1 + Log2Int(n \div 2)

\* jnp.log of a positive rational, in units of ln 2
Log(q) == Log2Int(q[1]) - Log2Int(q[2])

VecLog(v) == [i \in 1..Len(v) |-> Log(v[i])]

----------------------------------------------------------------------------
\* The renewal model (emu_renewal.renew.RenewalModel) as the calibration sees it

\* epoch.index_to_dti: model times to calendar dates
index_to_dti(epoch, times) == [i \in 1..Len(times) |-> epoch.ref_date + times[i] * epoch.unit]

\* epoch.dti_to_index(...).astype(int): calendar dates back to model times
dti_to_index(epoch, dates) == [i \in 1..Len(dates) |-> (dates[i] - epoch.ref_date) \div epoch.unit]

\* model_times: T consecutive integer times from the simulation start, the
\* first run_in of them the run-in phase; analysis_times: the rest ("from the
\* end of the run-in phase through to the end of the analysis");
\* x_proc_points: x_proc_data.points, one per process period; renewal_func:
\* the function is kept as the name of the set of trajectories it may return
RenewalModel(start, T, run_in, n_proc, outputs) ==
    [epoch |-> [ref_date |-> 1, unit |-> 2],
     model_times |-> [i \in 1..T |-> start + i - 1],
     analysis_times |-> [i \in 1..(T - run_in) |-> start + run_in + i - 1],
     x_proc_points |-> [i \in 1..n_proc |-> i],
     renewal_func |-> outputs]

----------------------------------------------------------------------------
\* pandas, as used by the constructor

\* data.index of a series
IndexOf(series) == [i \in 1..Len(series) |-> series[i][1]]

\* mutant: Index.union(other)
intersection_union(idx, other) == idx \o SelectSeq(other, LAMBDA d : d \notin Range(idx))

\* Index.intersection(other) (sort=False) of an index without duplicates: the
\* labels of idx that occur in other, in the order they have in idx
intersection(idx, other) == SelectSeq(idx, LAMBDA d : d \in Range(other))

HasLabel(series, d) == \E i \in 1..Len(series) : series[i][1] = d

\* series.loc[labels] raises KeyError when the index lacks one of the labels
locRaises(series, labels) == \E i \in 1..Len(labels) : ~HasLabel(series, labels[i])

\* mutant: the first len(labels) values by position
loc_positional(series, labels) == [i \in 1..Len(labels) |-> series[i][2]]

\* series.loc[labels]: the value at each label, in the order of labels
loc(series, labels) ==
    [i \in 1..Len(labels) |->
        series[CHOOSE j \in 1..Len(series) : series[j][1] = labels[i]][2]]

----------------------------------------------------------------------------
\* Calibration.__init__ and StandardCalib.__init__

\* mutant: the dates of all model times, run-in included
AnalysisDates_all(epi_model) == index_to_dti(epi_model.epoch, epi_model.model_times)

\* analysis_dates_idx: the calendar dates of the model's analysis times
AnalysisDates(epi_model) == index_to_dti(epi_model.epoch, epi_model.analysis_times)

\* mutant: the first simulated time is not subtracted
ModelOffsets_absolute(epi_model, dates) == dti_to_index(epi_model.epoch, dates)

\* common_model_idx: the dates as model times, less the first simulated time
ModelOffsets(epi_model, dates) ==
    LET idx == dti_to_index(epi_model.epoch, dates)
    IN  [i \in 1..Len(idx) |-> idx[i] - epi_model.model_times[1]]

\* the attributes Calibration.__init__ sets, and what it raised
CalibrationInit(epi_model, data) ==
    LET analysis_dates_idx == AnalysisDates(epi_model)
        common_dates_idx == intersection(IndexOf(data), analysis_dates_idx)
        raised == locRaises(data, common_dates_idx)
    IN  [raised |-> IF raised THEN "KeyError" ELSE "None",
         epi_model |-> epi_model,
         n_process_periods |-> Len(epi_model.x_proc_points),
         data |-> IF raised THEN <<>> ELSE loc(data, common_dates_idx),
         common_model_idx |-> ModelOffsets(epi_model, common_dates_idx)]

\* mutant: the assignment of data_disp_range not commented out
StandardCalibInit_with_range(epi_model, data, priors, init_data, fixed_params, smoothing) ==
    LET base == CalibrationInit(epi_model, data)
    IN  [epi_model |-> base.epi_model,
         n_process_periods |-> base.n_process_periods,
         data |-> base.data,
         common_model_idx |-> base.common_model_idx,
         data_disp_range |-> <<0, 1>>,
         data_disp_sd |-> <<1, 1>>,
         proc_disp_sd |-> <<1, 1>>,
         priors |-> priors,
         init_data |-> init_data,
         fixed_params |-> fixed_params,
         smoothing |-> smoothing]

\* the attributes of a constructed StandardCalib (data_disp_range is not
\* among them: its assignment is commented out)
StandardCalibInit(epi_model, data, priors, init_data, fixed_params, smoothing) ==
    LET base == CalibrationInit(epi_model, data)
    IN  [epi_model |-> base.epi_model,
         n_process_periods |-> base.n_process_periods,
         data |-> base.data,
         common_model_idx |-> base.common_model_idx,
         data_disp_sd |-> <<1, 1>>,
         proc_disp_sd |-> <<1, 1>>,
         priors |-> priors,
         init_data |-> init_data,
         fixed_params |-> fixed_params,
         smoothing |-> smoothing]

----------------------------------------------------------------------------
\* Outcomes of a call, dicts, the sampler trace

\* the call returned value v (None is the empty tuple) or raised error e
Returned(v) == [raised |-> "None", value |-> v]

Raised(e) == [raised |-> e, value |-> <<>>]

\* d | other: a new dict, the right operand winning on a shared key
Merge(d, other) ==
    [k \in DOMAIN d \cup DOMAIN other |-> IF k \in DOMAIN other THEN other[k] ELSE d[k]]

\* d[k] = v
DictSet(d, k, v) == [x \in DOMAIN d \cup {k} |-> IF x = k THEN v ELSE d[x]]

\* the reference of the dict that calibration() builds
LocalRef == "param_updates"

\* mutant: param_updates |= {...}, the update made in place
DictOr_inplace(h, ref, other) ==
    [heap |-> [h EXCEPT ![ref] = Merge(h[ref], other)], ref |-> ref]

\* param_updates = param_updates | {...}: the union is a new dict object and
\* the name is rebound to it; the dict it was an alias of is left as it was
DictOr(h, ref, other) ==
    [heap |-> [r \in DOMAIN h \cup {LocalRef} |->
                  IF r = LocalRef THEN Merge(h[ref], other) ELSE h[r]],
     ref |-> LocalRef]

\* mutant: param_updates.setdefault(k, v)
SetItem_default(h, ref, k, v) ==
    IF k \in DOMAIN h[ref] THEN h ELSE [h EXCEPT ![ref] = DictSet(h[ref], k, v)]

\* param_updates[k] = v, on whichever dict object the name refers to
SetItem(h, ref, k, v) == [h EXCEPT ![ref] = DictSet(h[ref], k, v)]

\* numpyro.sample(name, ...) and numpyro.factor(name, ...) registrations
SampleSite(name, value) == [type |-> "sample", name |-> name, value |-> value]

FactorSite(name, value) == [type |-> "factor", name |-> name, value |-> value]

----------------------------------------------------------------------------
\* numpyro distributions

\* jnp.repeat(0.0, n)
ZeroVec(n) == [i \in 1..n |-> <<0, 1>>]

\* getattr(dist, distname)(*args, **kwargs)
Resolve(spec) == [family |-> spec[1], args |-> spec[2]]

HalfNormal(sd) == [family |-> "HalfNormal", args |-> <<sd>>]

\* dist.Normal(loc, scale) with a vector loc: one component per element of loc
Normal(loc_, scale) == [family |-> "Normal", loc |-> loc_, scale |-> scale]

\* the values a draw from the distribution takes in the model
Support(d) ==
    CASE d.family = "Beta" -> {<<1, 4>>, <<1, 2>>}
      [] d.family = "HalfNormal" -> {<<1, 1>>, <<2, 1>>}
      [] OTHER -> {<<1, 1>>}

\* a draw from Normal(loc, scale): as many components as loc has
NormalDraw(d) == [i \in 1..Len(d.loc) |-> <<0, 1>>]

\* the joint draws of the proc_dispersion and dispersion sites: both values of
\* each support occur, and the two draws of one evaluation differ
DispersionDraws(proc_d, data_d) ==
    {d \in Support(proc_d) \X Support(data_d) : d[1] # d[2]}

\* the joint draws of the prior sites: one value per prior, from its support
SampleSpace(priors) ==
    {f \in [{priors[i][1] : i \in 1..Len(priors)} -> {<<1, 4>>, <<1, 2>>, <<1, 1>>}] :
        \A i \in 1..Len(priors) : f[priors[i][1]] \in Support(Resolve(priors[i][2]))}

RECURSIVE SumSq(_, _, _)
SumSq(x, mu, n) == IF n = 0 THEN 0 ELSE SumSq(x, mu, n - 1) + (x[n] - mu[n]) * (x[n] - mu[n])

\* mutant: the density of the first element only, the sum forgotten
NormalLogProbFirst(mu, sigma, x) ==
    [sq |-> IF Len(x) = 0 THEN 0 ELSE (x[1] - mu[1]) * (x[1] - mu[1]),
     n |-> IF Len(x) = 0 THEN 0 ELSE 1,
     scale |-> sigma]

\* dist.Normal(mu, sigma).log_prob(x).sum() for vectors x, mu of logarithms in
\* units of ln 2: the real number
\*     - sq * (ln 2)^2 / (2 sigma^2) - n * (log(sigma) + 0.5 * log(2 pi))
\* kept exactly as its coefficients sq (sum of squared residuals), n (number
\* of terms) and the scale sigma
NormalLogProbSum(mu, sigma, x) == [sq |-> SumSq(x, mu, Len(x)), n |-> Len(x), scale |-> sigma]

----------------------------------------------------------------------------
\* StandardCalib.get_model_notifications

\* a trajectory array subscripted at zero-based offsets
Take(v, idx) == [i \in 1..Len(idx) |-> v[idx[i] + 1]]

\* mutant: the raw incidence whatever the smoothing flag
get_model_notifications_raw(s, tr, cdr) ==
    VecMul(Take(tr.incidence, s.common_model_idx), cdr)

\* tr: the trajectory renewal_func(gen_mean, gen_sd, proc, init_window, rt0)
\* returned
get_model_notifications(s, tr, cdr) ==
    IF s.smoothing
    THEN VecMul(Take(tr.incidence_ma7, s.common_model_idx), cdr)
    ELSE VecMul(Take(tr.incidence, s.common_model_idx), cdr)

----------------------------------------------------------------------------
\* StandardCalib.calibration

\* mutant: init_data * cdr
InitWindow_times(init_data, cdr) == VecMul(init_data, cdr)

\* param_updates["init_window"]: init_data / cdr, elementwise
InitWindow(init_data, cdr) == VecDiv(init_data, cdr)

\* One evaluation: s the object, h the heap, draws the values the sample
\* sites take (draws.prior by prior name, draws.proc_dispersion,
\* draws.dispersion), tr the trajectory the renewal model returns.  Gives the
\* heap after the call (locals dropped), the registrations, the keyword
\* arguments passed on and the outcome.
calibration(s, h, draws, tr) ==
    LET params == [i \in 1..Len(s.priors) |-> <<s.priors[i][1], Resolve(s.priors[i][2])>>]
        sampled == [k \in {params[i][1] : i \in 1..Len(params)} |-> draws.prior[k]]
        prior_sites == [i \in 1..Len(params) |-> SampleSite(params[i][1], sampled[params[i][1]])]
        u0 == DictOr(h, s.fixed_params, sampled)
        ref == u0.ref
        h1 == SetItem(u0.heap, ref, "init_window", InitWindow(s.init_data, u0.heap[ref]["cdr"]))
        proc_dispersion == draws.proc_dispersion
        proc_dist == Normal(ZeroVec(s.n_process_periods), proc_dispersion)
        h2 == SetItem(h1, ref, "proc", NormalDraw(proc_dist))
        kwargs == h2[ref]
        log_model_res == VecLog(get_model_notifications(s, tr, kwargs["cdr"]))
        log_target == VecLog(s.data)
        dispersion == draws.dispersion
        like == NormalLogProbSum(log_model_res, dispersion, log_target)
    IN  [heap |-> [r \in DOMAIN h |-> h2[r]],
         trace |-> prior_sites
                   \o <<SampleSite("proc_dispersion", proc_dispersion),
                        SampleSite("proc", kwargs["proc"]),
                        SampleSite("dispersion", dispersion),
                        FactorSite("notifications_ll", like)>>,
         args |-> kwargs,
         ret |-> Returned(<<>>)]

----------------------------------------------------------------------------
\* StandardCalib.get_description

\* the f-string reads self.n_process_periods, then self.data_disp_range
get_description(s) ==
    IF {"n_process_periods", "data_disp_range"} \subseteq DOMAIN s
    THEN Returned(<<"description">>)
    ELSE Raised("AttributeError")

----------------------------------------------------------------------------
\* Inputs

\* observed counts and simulated incidence values
Counts == {<<1, 1>>, <<2, 1>>}

\* trajectories over T model times: raw and smoothed incidence, any counts
Trajectories(T) ==
    {[incidence |-> inc, incidence_ma7 |-> ma] :
        inc \in [1..T -> Counts], ma \in [1..T -> Counts]}

\* one trajectory whose raw and smoothed incidence differ everywhere
OneTrajectory(T) ==
    {[incidence |-> [i \in 1..T |-> <<2, 1>>], incidence_ma7 |-> [i \in 1..T |-> <<1, 1>>]]}

\* what epi_model.renewal_func(gen_mean, gen_sd, proc, init_window, rt0) may
\* return, whatever its arguments
RenewalOutputs(em) ==
    IF em.renewal_func = "one"
    THEN OneTrajectory(Len(em.model_times))
    ELSE Trajectories(Len(em.model_times))

\* renewal models of MaxT time points from time 2, with or without a run-in
\* step: one process period and one possible trajectory ...
ModelsAlign == {RenewalModel(2, MaxT, run_in, 1, "one") : run_in \in {0, 1}}

\* ... or 1 or MaxProc process periods and any trajectory
ModelsLik ==
    {RenewalModel(2, MaxT, run_in, n_proc, "any") :
        run_in \in {0, 1}, n_proc \in {1, MaxProc}}

DateOf(em, t) == em.epoch.ref_date + t * em.epoch.unit

\* the dates an observed series may carry: the step before the simulation,
\* every simulated step, a date between two steps, the step after the end
DateUniverse(em) ==
    LET T == Len(em.model_times)
    IN  {DateOf(em, em.model_times[1] - 1), DateOf(em, em.model_times[1]) + 1,
         DateOf(em, em.model_times[T] + 1)}
        \cup {DateOf(em, em.model_times[i]) : i \in 1..T}

DistinctDates(s) == \A i, j \in 1..Len(s) : s[i][1] = s[j][1] => i = j

\* every series of at most MaxObs rows with distinct dates, in any order
ObservedSeries(em) ==
    UNION {{s \in [1..n -> DateUniverse(em) \X Counts] : DistinctDates(s)} : n \in 0..MaxObs}

\* the series that carry the same count at every simulated date, in date order
FullSeries(em) ==
    {[i \in 1..Len(em.model_times) |-> <<DateOf(em, em.model_times[i]), v>>] : v \in Counts}

\* prior specifications (distribution name, positional args, keyword args),
\* in the order of the priors dict
CdrPrior == <<"cdr", <<"Beta", <<2, 2>>, <<>>>>>>

GenPriors == << <<"gen_mean", <<"Gamma", <<2, 2>>, <<>>>>>>,
                <<"gen_sd", <<"Gamma", <<2, 2>>, <<>>>>>> >>

\* fixed_params: rt0 always; cdr when it has no prior; and possibly a
\* user-supplied "proc" vector of some length
FixedParams(cdr_fixed, proc_len) ==
    LET base == [k \in {"rt0"} |-> <<1, 1>>]
        withCdr == IF cdr_fixed
                   THEN [k \in DOMAIN base \cup {"cdr"} |-> IF k = "cdr" THEN <<1, 2>> ELSE base[k]]
                   ELSE base
    IN  IF proc_len < 0 THEN withCdr
        ELSE [k \in DOMAIN withCdr \cup {"proc"} |->
                 IF k = "proc" THEN ZeroVec(proc_len) ELSE withCdr[k]]

Priors(cdr_fixed) == IF cdr_fixed THEN GenPriors ELSE GenPriors \o <<CdrPrior>>

\* lengths of a "proc" entry in fixed_params; -1: no entry
ProcLens == {-1, 2}

InitData == {<<<<2, 1>>>>, <<<<1, 1>>, <<2, 1>>>>}

\* the reference under which the caller's fixed_params dict lives
FixedRef == "fixed_params"

InitWith(em, data, cdr_fixed, proc_len, init_data, smoothing) ==
    /\ obs = data
    /\ self = StandardCalibInit(em, data, Priors(cdr_fixed), init_data, FixedRef, smoothing)
    /\ heap = [r \in {FixedRef} |-> FixedParams(cdr_fixed, proc_len)]
    /\ op = "init"
    /\ args = <<>>
    /\ traj = <<>>
    /\ trace = <<>>
    /\ ret = IF CalibrationInit(em, data).raised = "None"
             THEN Returned(<<>>) ELSE Raised(CalibrationInit(em, data).raised)

\* any observed series against a plainly configured calibration
InitAlign ==
    \E em \in ModelsAlign : \E data \in ObservedSeries(em) :
        /\ InitWith(em, data, FALSE, -1, <<<<2, 1>>>>, FALSE)

\* any configuration of the calibration against a fully observed range
InitLik ==
    \E em \in ModelsLik : \E data \in FullSeries(em) :
    \E cdr_fixed \in BOOLEAN : \E proc_len \in ProcLens :
    \E init_data \in InitData : \E smoothing \in BOOLEAN :
        InitWith(em, data, cdr_fixed, proc_len, init_data, smoothing)

Init == InitAlign \/ InitLik

----------------------------------------------------------------------------
\* Operations on the constructed object

\* the object exists and no call is under way
Ready == op \in {"init", "idle"} /\ ret.raised = "None"

\* a caller's get_model_notifications(gen_mean, gen_sd, proc, init_window, cdr, rt0)
GetModelNotifications ==
    \E tr \in RenewalOutputs(self.epi_model) : \E cdr \in {<<0, 1>>, <<1, 2>>} :
        /\ Ready
        /\ op' = "get_model_notifications"
        /\ args' = [gen_mean |-> <<1, 1>>, gen_sd |-> <<1, 1>>,
                    proc |-> ZeroVec(self.n_process_periods),
                    init_window |-> <<<<1, 1>>>>, cdr |-> cdr, rt0 |-> <<1, 1>>]
        /\ traj' = tr
        /\ trace' = <<>>
        /\ ret' = Returned(get_model_notifications(self, tr, cdr))
        /\ UNCHANGED <<obs, self, heap>>

\* the sampler's call of calibration(): one likelihood evaluation
Calibration ==
    \E prior \in SampleSpace(self.priors) :
    \E disp \in DispersionDraws(HalfNormal(self.proc_disp_sd), HalfNormal(self.data_disp_sd)) :
    \E tr \in RenewalOutputs(self.epi_model) :
        LET out == calibration(self, heap,
                               [prior |-> prior, proc_dispersion |-> disp[1],
                                dispersion |-> disp[2]], tr)
        IN  /\ Ready
            /\ op' = "calibration"
            /\ heap' = out.heap
            /\ args' = out.args
            /\ traj' = tr
            /\ trace' = out.trace
            /\ ret' = out.ret
            /\ UNCHANGED <<obs, self>>

\* a caller's get_description()
GetDescription ==
    /\ Ready
    /\ op' = "get_description"
    /\ args' = <<>>
    /\ traj' = <<>>
    /\ trace' = <<>>
    /\ ret' = get_description(self)
    /\ UNCHANGED <<obs, self, heap>>

\* the call is over: its result, its locals and its sampler trace are dropped,
\* an error it raised has been caught by the caller; the object stays
EndCall ==
    /\ op \notin {"init", "idle"}
    /\ op' = "idle"
    /\ args' = <<>>
    /\ traj' = <<>>
    /\ trace' = <<>>
    /\ ret' = Returned(<<>>)
    /\ UNCHANGED <<obs, self, heap>>

Next == GetModelNotifications \/ Calibration \/ GetDescription \/ EndCall

Spec == Init /\ [][Next]_vars

----------------------------------------------------------------------------
\* Vocabulary of the properties

\* the value a sample site of the last call registered
SiteValue(name) ==
    trace[CHOOSE i \in 1..Len(trace) : trace[i].type = "sample" /\ trace[i].name = name].value

HasSite(name) == \E i \in 1..Len(trace) : trace[i].name = name

\* the incidence series the smoothing flag selects from the last trajectory
Selected == IF self.smoothing THEN traj.incidence_ma7 ELSE traj.incidence

\* modelled notifications of the last call, written out from the trajectory
Modelled ==
    [i \in 1..Len(self.common_model_idx) |->
        Mul(Selected[self.common_model_idx[i] + 1], args["cdr"])]

\* raw and smoothed incidence differ at some analysis-window offset
DifferInWindow ==
    \E i \in 1..Len(self.common_model_idx) :
        traj.incidence[self.common_model_idx[i] + 1]
            # traj.incidence_ma7[self.common_model_idx[i] + 1]

RECURSIVE ResidualSquares(_)
ResidualSquares(n) ==
    IF n = 0 THEN 0
    ELSE ResidualSquares(n - 1)
         + (Log(self.data[n]) - Log(Modelled[n])) * (Log(self.data[n]) - Log(Modelled[n]))

ObsDates == {obs[i][1] : i \in 1..Len(obs)}

ModelDates == {DateOf(self.epi_model, self.epi_model.model_times[i]) :
                  i \in 1..Len(self.epi_model.model_times)}

AnalysisDateSet == {DateOf(self.epi_model, self.epi_model.analysis_times[i]) :
                       i \in 1..Len(self.epi_model.analysis_times)}

ObsSorted == \A i, j \in 1..Len(obs) : i < j => obs[i][1] < obs[j][1]

StrictlyIncreasing(v) == \A i, j \in 1..Len(v) : i < j => v[i] < v[j]

NTimes == Len(self.epi_model.model_times)

RunIn == Len(self.epi_model.model_times) - Len(self.epi_model.analysis_times)

\* the date the i-th offset stands for
OffsetDate(i) ==
    DateOf(self.epi_model, self.common_model_idx[i] + self.epi_model.model_times[1])

\* the case detection ratio of the last evaluation: the draw of the "cdr"
\* site when cdr has a prior, the fixed value otherwise
CdrOfEvaluation ==
    IF HasSite("cdr") THEN SiteValue("cdr") ELSE heap[self.fixed_params]["cdr"]

----------------------------------------------------------------------------
\* C1: every calibration() registers as 'notifications_ll' the sum over all
\* analysis-window points of the normal log-density of log(observed) with
\* mean log(modelled) and standard deviation the draw of the "dispersion"
\* site: n terms, squared residuals summed, scale the dispersion draw.  When
\* modelled and observed agree at all n points the value is n times the
\* zero-residual density, -0.5 * log(2 pi sigma^2) * n (sq = 0, n terms).
C1_LogLikelihoodIsNormalLogDensitySum ==
    op = "calibration" =>
        LET n == Len(self.data)
            sigma == SiteValue("dispersion")
            f == trace[Len(trace)]
        IN  /\ Len(Modelled) = n
            /\ f = FactorSite("notifications_ll",
                              [sq |-> ResidualSquares(n), n |-> n, scale |-> sigma])
            /\ (\A i \in 1..n : Modelled[i] = self.data[i])
                   => f.value = [sq |-> 0, n |-> n, scale |-> sigma]

\* C1 witness: an evaluation over two analysis points where modelled and
\* observed notifications agree and the zero-residual value is registered
C1_Witness ==
    /\ op = "calibration"
    /\ Len(self.data) = 2
    /\ \A i \in 1..2 : Modelled[i] = self.data[i]
    /\ trace[Len(trace)].value = [sq |-> 0, n |-> 2, scale |-> <<2, 1>>]

\* C2 (as stated): get_model_notifications returns the selected incidence at
\* the analysis offsets times cdr, and whenever raw and smoothed incidence
\* differ at an analysis offset, switching the smoothing flag changes the
\* returned vector.
C2_SwitchAlwaysObservable ==
    op = "get_model_notifications" =>
        /\ ret.value = Modelled
        /\ DifferInWindow =>
               get_model_notifications([self EXCEPT !.smoothing = ~self.smoothing],
                                       traj, args["cdr"]) # ret.value

\* C2 (amended): the same, the switch being observable when cdr is not zero.
C2_SwitchObservableForNonzeroCdr ==
    op = "get_model_notifications" =>
        /\ ret.raised = "None"
        /\ ret.value = Modelled
        /\ (DifferInWindow /\ args["cdr"] # <<0, 1>>) =>
               get_model_notifications([self EXCEPT !.smoothing = ~self.smoothing],
                                       traj, args["cdr"]) # ret.value

\* C2 witness: a smoothed extraction with nonzero cdr from a trajectory whose
\* raw and smoothed incidence differ inside the window
C2_Witness ==
    /\ op = "get_model_notifications"
    /\ self.smoothing
    /\ args["cdr"] # <<0, 1>>
    /\ DifferInWindow
    /\ ret.value # VecMul(Take(traj.incidence, self.common_model_idx), args["cdr"])

\* C3 (as stated): in every evaluation init_window is the first observed
\* count of the aligned target series divided by that evaluation's cdr.
C3_InitWindowFromFirstTarget ==
    (op = "calibration" /\ Len(self.data) > 0) =>
        \A i \in 1..Len(args["init_window"]) :
            args["init_window"][i] = Div(self.data[1], CdrOfEvaluation)

\* C3 (amended): in every evaluation init_window is the init_data series
\* given to the constructor, each element divided by that evaluation's cdr.
C3_InitWindowFromInitData ==
    op = "calibration" =>
        /\ args["cdr"] = CdrOfEvaluation
        /\ Len(args["init_window"]) = Len(self.init_data)
        /\ \A i \in 1..Len(self.init_data) :
               args["init_window"][i] = Div(self.init_data[i], CdrOfEvaluation)

\* C3 witness: an evaluation with a drawn cdr whose init_window comes from a
\* two-element init_data and differs from first-target / cdr
C3_Witness ==
    /\ op = "calibration"
    /\ HasSite("cdr")
    /\ Len(self.data) > 0
    /\ Len(self.init_data) = 2
    /\ args["init_window"] = <<Div(self.init_data[1], SiteValue("cdr")),
                               Div(self.init_data[2], SiteValue("cdr"))>>
    /\ args["init_window"][1] # Div(self.data[1], SiteValue("cdr"))

C5_SupersetGivesFullModelRange ==
    ModelDates \subseteq ObsDates =>
        /\ self.common_model_idx = [i \in 1..NTimes |-> i - 1]
        /\ Len(self.data) = NTimes

\* C5 (amended): when the series' dates are a superset of the simulated dates
\* the window is the model's analysis range: the offsets are the T - r offsets
\* r, ..., T-1 (r the number of run-in time points), each once, in increasing
\* order when the series is sorted, and the target has T - r entries.
C5_SupersetGivesAnalysisRange ==
    ModelDates \subseteq ObsDates =>
        /\ Len(self.data) = NTimes - RunIn
        /\ Len(self.common_model_idx) = NTimes - RunIn
        /\ Range(self.common_model_idx) = RunIn..(NTimes - 1)
        /\ ObsSorted => self.common_model_idx = [i \in 1..(NTimes - RunIn) |-> RunIn + i - 1]

\* C5 witness: a sorted strict superset of the simulated dates against a model
\* with a run-in step
C5_Witness ==
    /\ ModelDates \subseteq ObsDates
    /\ ObsDates # ModelDates
    /\ ObsSorted
    /\ RunIn = 1
    /\ self.common_model_idx = [i \in 1..(NTimes - 1) |-> i]

\* C6 (as stated): an evaluation given a process vector of a length other
\* than n_process_periods fails; the vector is never silently replaced.
C6_MismatchFails ==
    (/\ op = "calibration"
     /\ "proc" \in DOMAIN heap[self.fixed_params]
     /\ Len(heap[self.fixed_params]["proc"]) # self.n_process_periods)
        => ret.raised # "None"

\* C6 (amended): every evaluation draws the process vector itself, with as
\* many components as the model declares process periods, and passes that
\* draw to the renewal model; a "proc" entry of fixed_params, of whatever
\* length, is replaced by it and the evaluation raises nothing.
C6_ProcDrawnAtDeclaredLength ==
    op = "calibration" =>
        /\ ret.raised = "None"
        /\ self.n_process_periods = Len(self.epi_model.x_proc_points)
        /\ Len(args["proc"]) = self.n_process_periods
        /\ args["proc"] = SiteValue("proc")

\* C6 witness: an evaluation that completed although fixed_params held a
\* "proc" vector of another length
C6_Witness ==
    /\ op = "calibration"
    /\ "proc" \in DOMAIN heap[self.fixed_params]
    /\ Len(heap[self.fixed_params]["proc"]) > self.n_process_periods
    /\ ret.raised = "None"
    /\ Len(args["proc"]) = self.n_process_periods

\* one step of C7
C7_Step ==
    /\ self' = self
    /\ heap' = heap
    /\ obs' = obs
    /\ op' = "calibration" =>
           /\ ret' = Returned(<<>>)
           /\ Len(trace') >= 1
           /\ trace'[Len(trace')].type = "factor"
           /\ Cardinality({i \in 1..Len(trace') : trace'[i].name = "notifications_ll"}) = 1
           /\ Cardinality({i \in 1..Len(trace') : trace'[i].type = "factor"}) = 1

\* C7: no call changes the object's bound state (data, common_model_idx,
\* fixed_params with the same keys and values, priors, init_data, smoothing,
\* the model); calibration() returns None and its registrations end with
\* exactly one 'notifications_ll' factor.
C7_CallsLeaveObjectUnchanged == [][C7_Step]_vars

\* C7 witness: a completed evaluation with a drawn cdr after which
\* fixed_params holds none of init_window, proc, cdr
C7_Witness ==
    /\ op = "calibration"
    /\ HasSite("cdr")
    /\ trace[Len(trace)].name = "notifications_ll"
    /\ DOMAIN heap[self.fixed_params] = {"rt0"}
    /\ DOMAIN args = {"gen_mean", "gen_sd", "cdr", "rt0", "init_window", "proc"}

\* C8: for a series whose dates are disjoint from the model's dates the
\* constructor raises nothing and the target vector and the offsets are empty.
C8_DisjointGivesEmptyWindow ==
    ObsDates \cap ModelDates = {} =>
        /\ op = "init" => ret = Returned(<<>>)
        /\ self.data = <<>>
        /\ self.common_model_idx = <<>>

\* C8 witness: a just-constructed object from a non-empty disjoint series
C8_Witness ==
    /\ op = "init"
    /\ Len(obs) >= 2
    /\ ObsDates \cap ModelDates = {}
    /\ ret.raised = "None"

C10_Step ==
    /\ "data_disp_range" \notin DOMAIN self
    /\ "data_disp_range" \notin DOMAIN self'
    /\ op' = "get_description" =>
           /\ ret' = Raised("AttributeError")
           /\ self' = self
           /\ heap' = heap

\* C10: data_disp_range is never assigned, so after any sequence of calls
\* get_description() raises AttributeError and leaves the object unchanged.
C10_GetDescriptionRaises == [][C10_Step]_vars

\* C10 witness: get_description() has raised AttributeError
C10_Witness ==
    /\ op = "get_description"
    /\ ret = Raised("AttributeError")
    /\ "n_process_periods" \in DOMAIN self

====
